---------------------------- MODULE Spec2Model ----------------------------
(***************************************************************************)
(* A model of generate_images.py: the badge generator that resolves nine  *)
(* independently fallible statistics with fallbacks, renders them into a   *)
(* template with re.sub, builds the two language blocks, and runs both     *)
(* badge tasks under asyncio.gather inside asyncio.run.                    *)
(*                                                                         *)
(* Text is a sequence of chunks.  A chunk is a string; the characters the  *)
(* regular-expression machinery looks at (braces, blanks, backslashes and  *)
(* the letters that may follow a backslash) are always chunks of their own,*)
(* and a chunk of several characters is literal text holding none of them. *)
(* An optional value (os.getenv, a file that may not exist) is a record    *)
(* [present, text]; Python's None is the record with present = FALSE.      *)
(***************************************************************************)
EXTENDS Integers, Sequences, FiniteSets, TLC

VARIABLES
    access_token,     \* os.getenv("ACCESS_TOKEN")
    user,             \* os.getenv("GITHUB_ACTOR")
    mainPc,           \* where main() is
    session,          \* the aiohttp.ClientSession: "none", "open", "closed"
    dirExists,        \* os.path.isdir("generated")
    files,            \* generated/overview.svg and generated/languages.svg
    written,          \* the artifacts written by this run
    mkdirError,       \* os.mkdir raised FileExistsError
    tmplOverview,     \* templates/overview.svg
    tmplLanguages,    \* templates/languages.svg
    issued,           \* the StatsProvider accessors awaited so far
    fetched,          \* outcome of each overview accessor
    langFetched,      \* outcome of s.languages
    ovPc,             \* where the generate_overview task is
    ovIdx,            \* the position of the accessor it awaits
    resolved,         \* name_val, stars_val, ... as far as assigned
    ovError,          \* why generate_overview ended, if it did not return
    lgPc,             \* where the generate_languages task is
    lgError,          \* why generate_languages ended, if it did not return
    env,              \* the boolean-ish filter variables of the environment
    flags,            \* ignore_forked_repos, ignore_contrib_repos
    template,         \* a template handed to the substitution chain
    values,           \* the replacement values handed to it
    rendered,         \* what the chain returned
    languages,        \* a language breakdown, in the dict's insertion order
    built             \* sorted_languages, progress and lang_list built from it

vars == << access_token, user, mainPc, session, dirExists, files, written,
           mkdirError, tmplOverview, tmplLanguages, issued, fetched,
           langFetched, ovPc, ovIdx, resolved, ovError, lgPc, lgError,
           env, flags, template, values, rendered, languages, built >>

(***************************************************************************)
(* Bounds of the model.                                                    *)
(***************************************************************************)
MaxPad == 1       \* blanks put on either side of an environment value
MaxPieces == 2    \* pieces a template handed to the substitution chains is made of
MaxLangs == 3     \* languages in a breakdown

(***************************************************************************)
(* Optional values and sequences.                                          *)
(***************************************************************************)
None == [present |-> FALSE, text |-> <<>>]
Some(t) == [present |-> TRUE, text |-> t]

SeqsUpTo(S, n) == UNION { [1..k -> S] : k \in 0..n }

RECURSIVE Flatten(_)
Flatten(ss) == IF ss = <<>> THEN <<>> ELSE Head(ss) \o Flatten(Tail(ss))

(***************************************************************************)
(* str.strip() and str.lower() on the characters a flag value is made of.  *)
(***************************************************************************)
Whitespace == {" ", "\t"}

RECURSIVE LStrip(_)
LStrip(s) == IF s # <<>> /\ Head(s) \in Whitespace THEN LStrip(Tail(s)) ELSE s

RECURSIVE RStrip(_)
RStrip(s) ==
    IF s # <<>> /\ s[Len(s)] \in Whitespace
    THEN RStrip(SubSeq(s, 1, Len(s) - 1)) ELSE s

Strip(s) == RStrip(LStrip(s))

LowerChar(c) ==
    CASE c = "F" -> "f" [] c = "A" -> "a" [] c = "L" -> "l"
      [] c = "S" -> "s" [] c = "E" -> "e" [] c = "T" -> "t"
      [] c = "R" -> "r" [] c = "U" -> "u" [] c = "Y" -> "y"
      [] OTHER -> c

Lower(s) == [i \in 1..Len(s) |-> LowerChar(s[i])]

(***************************************************************************)
(* main(), lines 170-179: "Convert a truthy value to a Boolean".           *)
(***************************************************************************)
TruthyPresentOnly(raw) == raw.present

\* Python truth of an Optional[str]: None and "" are false
Truthy(raw) == raw.present /\ raw.text # <<>>

\* (a or b): a when a is truthy, else b
PyOr(a, b) == IF Truthy(a) THEN a ELSE b

ParseFlag(raw) ==
    Truthy(raw) /\ Lower(Strip(raw.text)) # <<"f", "a", "l", "s", "e">>

ignore_forked_repos(e) == ParseFlag(e.EXCLUDE_FORKED_REPOS)

ignore_contrib_repos(e) ==
    ParseFlag(PyOr(e.EXCLUDE_CONTRIBS, e.EXCLUDE_CONTRIBUTED))

(***************************************************************************)
(* re.sub(pattern, repl, string) for the patterns of this program, which   *)
(* are literal text: "{{ name }}" holds no regular-expression operator     *)
(* (a brace that opens no repeat count matches itself).  repl is a         *)
(* replacement template: re parses its backslash escapes before it scans   *)
(* the string, and raises re.error on a bad one.                           *)
(***************************************************************************)
Placeholder(id) == << "{", "{", " ", id, " ", "}", "}" >>

AsciiLetters ==
    { "a", "b", "c", "d", "e", "f", "g", "h", "i", "j", "k", "l", "m", "n",
      "o", "p", "q", "r", "s", "t", "u", "v", "w", "x", "y", "z",
      "A", "B", "C", "D", "E", "F", "G", "H", "I", "J", "K", "L", "M", "N",
      "O", "P", "Q", "R", "S", "T", "U", "V", "W", "X", "Y", "Z" }

GroupDigits == { "1", "2", "3", "4", "5", "6", "7", "8", "9" }

\* the character a backslash escape of the replacement template stands for
EscapeChar(c) ==
    CASE c = "\\" -> "\\"
      [] c = "n" -> "\n"
      [] c = "t" -> "\t"
      [] c = "r" -> "\r"
      [] c = "f" -> "\f"
      [] c = "a" -> "<BEL>"
      [] c = "b" -> "<BS>"
      [] c = "v" -> "<VT>"
      [] c = "0" -> "<NUL>"

Escapes == { "\\", "n", "t", "r", "f", "a", "b", "v", "0" }

WholeMatchRef(r, i) ==
    /\ i + 3 <= Len(r)
    /\ r[i] = "g" /\ r[i + 1] = "<" /\ r[i + 2] = "0" /\ r[i + 3] = ">"

\* the template has an escape re rejects: a backslash at the end, before a
\* letter that is no escape, or before a reference to a group the pattern
\* does not have (the patterns here have no groups)
RECURSIVE BadEscapeFrom(_, _)
BadEscapeFrom(r, i) ==
    IF i > Len(r) THEN FALSE
    ELSE IF r[i] # "\\" THEN BadEscapeFrom(r, i + 1)
    ELSE IF i = Len(r) THEN TRUE
    ELSE IF r[i + 1] \in Escapes THEN BadEscapeFrom(r, i + 2)
    ELSE IF WholeMatchRef(r, i + 1) THEN BadEscapeFrom(r, i + 5)
    ELSE IF r[i + 1] \in AsciiLetters \cup GroupDigits THEN TRUE
    ELSE BadEscapeFrom(r, i + 2)

RECURSIVE ExpandFrom(_, _, _)
ExpandFrom(r, i, match) ==
    IF i > Len(r) THEN <<>>
    ELSE IF r[i] # "\\" \/ i = Len(r)
         THEN << r[i] >> \o ExpandFrom(r, i + 1, match)
    ELSE IF r[i + 1] \in Escapes
         THEN << EscapeChar(r[i + 1]) >> \o ExpandFrom(r, i + 2, match)
    ELSE IF WholeMatchRef(r, i + 1)
         THEN match \o ExpandFrom(r, i + 5, match)
    ELSE << r[i], r[i + 1] >> \o ExpandFrom(r, i + 2, match)

MatchesAt(p, t, i) ==
    /\ i + Len(p) - 1 <= Len(t)
    /\ \A k \in 1..Len(p) : t[i + k - 1] = p[k]

\* leftmost, non-overlapping matches, each replaced by the expanded template:
\* the text up to the first match at or behind i, the replacement, and the
\* same for what follows the match
RECURSIVE SubFrom(_, _, _, _)
SubFrom(p, x, t, i) ==
    LET at == { j \in i..Len(t) : MatchesAt(p, t, j) }
    IN  IF at = {} THEN SubSeq(t, i, Len(t))
        ELSE LET j == CHOOSE m \in at : \A k \in at : m <= k
             IN  SubSeq(t, i, j - 1) \o x \o SubFrom(p, x, t, j + Len(p))

ReSub(p, repl, t) ==
    IF BadEscapeFrom(repl, 1)
    THEN [error |-> TRUE, text |-> <<>>]
    ELSE [error |-> FALSE, text |-> SubFrom(p, ExpandFrom(repl, 1, p), t, 1)]

\* output = re.sub(...); output = re.sub(...); ... : each call works on the
\* output of the one before, and the first re.error ends the function
RECURSIVE SubChain(_, _)
SubChain(subs, t) ==
    IF subs = <<>> THEN [error |-> FALSE, text |-> t]
    ELSE LET r == ReSub(Placeholder(Head(subs).ph), Head(subs).repl, t)
         IN  IF r.error THEN r ELSE SubChain(Tail(subs), r.text)

Contains(t, p) == \E i \in 1..Len(t) : MatchesAt(p, t, i)

(***************************************************************************)
(* generate_overview, lines 40-98: the nine fields, their fallbacks, the   *)
(* f"{n:,}" format and the substitutions.                                  *)
(***************************************************************************)
FieldOrder ==
    << "name", "stargazers", "forks", "total_contributions", "lines_changed",
       "views", "repos", "total_pull_requests", "total_issues_created" >>

Fields == { FieldOrder[i] : i \in 1..Len(FieldOrder) }

Pad3(k) ==
    IF k < 10 THEN "00" \o ToString(k)
    ELSE IF k < 100 THEN "0" \o ToString(k) ELSE ToString(k)

\* f"{n:,}" for n >= 0
RECURSIVE Thousands(_)
Thousands(n) ==
    IF n < 1000 THEN ToString(n)
    ELSE Thousands(n \div 1000) \o "," \o Pad3(n % 1000)

FallbackAllZero(f) ==
    IF f = "name" THEN << "Unknown" >> ELSE << "0" >>

Fallback(f) ==
    CASE f = "name" -> << "Unknown" >>
      [] f = "lines_changed" -> << "N/A" >>
      [] OTHER -> << "0" >>

Pending == [state |-> "pending"]
Failed == [state |-> "error"]
Ok(v) == [state |-> "ok", value |-> v]

\* a sub-count of lines_changed: an int, or None
Count(n) == [isInt |-> TRUE, n |-> n]
NoCount == [isInt |-> FALSE, n |-> 0]

\* the body of one try block; what raises inside it is caught by
\* "except Exception" and gives the fallback
Formatted(f, v) ==
    CASE f = "name" -> [raised |-> FALSE, text |-> v]
      [] f = "lines_changed" ->
            IF v[1].isInt /\ v[2].isInt
            THEN [raised |-> FALSE, text |-> << Thousands(v[1].n + v[2].n) >>]
            ELSE [raised |-> TRUE, text |-> <<>>]     \* TypeError on None + int
      [] f = "repos" ->
            [raised |-> FALSE, text |-> << Thousands(Cardinality(v)) >>]
      [] OTHER -> [raised |-> FALSE, text |-> << Thousands(v) >>]

Resolve(f, o) ==
    IF o.state = "error" THEN Fallback(f)
    ELSE LET r == Formatted(f, o.value)
         IN  IF r.raised THEN Fallback(f) ELSE r.text

\* lines 89-98; the substitution of {{ lines_changed }} is commented out
OverviewSubs(v) ==
    << [ph |-> "name", repl |-> v["name"]],
       [ph |-> "stars", repl |-> v["stargazers"]],
       [ph |-> "forks", repl |-> v["forks"]],
       [ph |-> "contributions", repl |-> v["total_contributions"]],
       [ph |-> "views", repl |-> v["views"]],
       [ph |-> "repos", repl |-> v["repos"]],
       [ph |-> "pull_requests", repl |-> v["total_pull_requests"]],
       [ph |-> "issues", repl |-> v["total_issues_created"]] >>

RenderOverview(tmpl, v) == SubChain(OverviewSubs(v), tmpl)

(***************************************************************************)
(* generate_languages, lines 113-139.  A breakdown is the sequence of the  *)
(* dict's items in insertion order; an entry is [name, size, color, prop], *)
(* color and prop optional.  prop, a float percentage, is held in          *)
(* thousandths of a percent (12346 is 12.346%), never on a rounding tie.   *)
(***************************************************************************)
delay_between == 150

InsertAscending(s, e) ==
    LET k == Cardinality({ i \in 1..Len(s) : s[i].size <= e.size })
    IN  SubSeq(s, 1, k) \o << e >> \o SubSeq(s, k + 1, Len(s))

\* where sorted(..., reverse=True) puts e, the last item of the dict so far:
\* behind every item at least as large (the sort is stable)
Insert(s, e) ==
    LET k == Cardinality({ i \in 1..Len(s) : s[i].size >= e.size })
    IN  SubSeq(s, 1, k) \o << e >> \o SubSeq(s, k + 1, Len(s))

RECURSIVE Sorted(_)
Sorted(items) ==
    IF items = <<>> THEN <<>>
    ELSE Insert(Sorted(SubSeq(items, 1, Len(items) - 1)), items[Len(items)])

ColorOf(data) ==
    IF data.color.present THEN data.color.text ELSE << "#000000" >>

PropOf(data) == IF data.prop.present THEN data.prop.n ELSE 0

Pad2(k) == IF k < 10 THEN "0" \o ToString(k) ELSE ToString(k)

\* f"{p:0.3f}" and f"{p:0.2f}"
Fixed3(p) == ToString(p \div 1000) \o "." \o Pad3(p % 1000)
Fixed2(p) ==
    LET q == (p + 5) \div 10
    IN  ToString(q \div 100) \o "." \o Pad2(q % 100)

ProgressItem(data) ==
    << "<span style=\"background-color: " >> \o ColorOf(data)
    \o << ";width: ", Fixed3(PropOf(data)),
          "%;\" class=\"progress-item\"></span>" >>

LangItem(i, data) ==
    << "\n<li style=\"animation-delay: ", ToString(i * delay_between),
       "ms;\">\n<svg xmlns=\"http://www.w3.org/2000/svg\" class=\"octicon\" style=\"fill:" >>
    \o ColorOf(data)
    \o << ";\"\nviewBox=\"0 0 16 16\" version=\"1.1\" width=\"16\" height=\"16\"><path\nfill-rule=\"evenodd\" d=\"M8 4a4 4 0 100 8 4 4 0 000-8z\"></path></svg>\n<span class=\"lang\">",
          data.name,
          "</span>\n<span class=\"percent\">", Fixed2(PropOf(data)),
          "%</span>\n</li>\n\n" >>

BuildBlocks(items) ==
    LET s == Sorted(items)
    IN  [sorted_languages |-> s,
         progress |-> Flatten([i \in 1..Len(s) |-> ProgressItem(s[i])]),
         lang_list |-> Flatten([i \in 1..Len(s) |-> LangItem(i - 1, s[i])])]

LanguagesSubs(b) ==
    << [ph |-> "progress", repl |-> b.progress],
       [ph |-> "lang_list", repl |-> b.lang_list] >>

RenderLanguages(tmpl, b) == SubChain(LanguagesSubs(b), tmpl)

(***************************************************************************)
(* generate_output_folder, lines 19-24.                                    *)
(***************************************************************************)
\* os.mkdir: FileExistsError when the directory is there
Mkdir(d) == [dir |-> TRUE, error |-> d]

MkdirUnchecked(d) == Mkdir(d)

generate_output_folder(d) ==
    IF ~d THEN Mkdir(d) ELSE [dir |-> d, error |-> FALSE]

(***************************************************************************)
(* The inputs of a run: the environment, the templates, what is on disk,   *)
(* and what the StatsProvider answers.                                     *)
(***************************************************************************)
Tokens == { None, Some(<<>>), Some(<< "ghp_token" >>) }
Users == { None, Some(<< "octocat" >>) }

OverviewTemplate ==
    << "<svg>" >> \o Placeholder("name") \o << "<stars>" >>
    \o Placeholder("stars") \o Placeholder("forks")
    \o << "<contributions>" >> \o Placeholder("contributions")
    \o << "<lines>" >> \o Placeholder("lines_changed")
    \o << "<views>" >> \o Placeholder("views")
    \o << "<repos>" >> \o Placeholder("repos")
    \o << "<prs>" >> \o Placeholder("pull_requests")
    \o << "<issues>" >> \o Placeholder("issues") \o << "</svg>" >>

LanguagesTemplate ==
    << "<svg>" >> \o Placeholder("progress") \o << "<ul>" >>
    \o Placeholder("lang_list") \o << "</ul></svg>" >>

OldArtifact == << "<svg>previous run</svg>" >>

NoFiles == [overview |-> None, languages |-> None]
OldFiles == [overview |-> Some(OldArtifact), languages |-> Some(OldArtifact)]

\* the environment of the pipeline runs
PipelineEnv ==
    [EXCLUDE_FORKED_REPOS |-> Some(<< "t", "r", "u", "e" >>),
     EXCLUDE_CONTRIBS |-> None,
     EXCLUDE_CONTRIBUTED |-> Some(<< "F", "a", "l", "s", "e" >>)]

Entry(n, z, c, p) == [name |-> n, size |-> z, color |-> c, prop |-> p]
NoProp == [present |-> FALSE, n |-> 0]
Prop(n) == [present |-> TRUE, n |-> n]

LanguageSamples ==
    { <<>>,
      << Entry("A", 50, None, Prop(14286)),
         Entry("B", 200, Some(<< "#3572A5" >>), Prop(57143)),
         Entry("C", 100, Some(<< "#555555" >>), Prop(28571)) >> }

Outcomes(f) ==
    { Failed } \cup
    CASE f = "name" ->
            { Ok(<< "Octo Cat" >>), Ok(<< "a", "\\", "d" >>) }
      [] f = "stargazers" -> { Ok(1234567) }
      [] f = "forks" -> { Ok(0) }
      [] f = "total_contributions" -> { Ok(1000) }
      [] f = "lines_changed" ->
            { Ok(<< Count(900), Count(334) >>),
              Ok(<< Count(900), NoCount >>),
              Ok(<< NoCount, Count(334) >>) }
      [] f = "views" -> { Ok(999) }
      [] f = "repos" -> { Ok({ "r1", "r2", "r3" }) }
      [] f = "total_pull_requests" -> { Ok(45) }
      [] f = "total_issues_created" -> { Ok(6) }

NoFlags == [parsed |-> FALSE, ignore_forked_repos |-> FALSE,
            ignore_contrib_repos |-> FALSE]
NoRender == [done |-> FALSE, kind |-> "none", error |-> FALSE, text |-> <<>>]
NoBlocks == [done |-> FALSE, sorted_languages |-> <<>>, progress |-> <<>>,
             lang_list |-> <<>>]

\* the variables of a part of the program that a specification leaves out
PipelineIdle ==
    /\ access_token = None /\ user = None /\ mainPc = "idle"
    /\ session = "none" /\ dirExists = FALSE /\ files = NoFiles
    /\ written = {} /\ mkdirError = FALSE
    /\ tmplOverview = None /\ tmplLanguages = None
    /\ issued = {} /\ fetched = [f \in Fields |-> Pending]
    /\ langFetched = Pending
    /\ ovPc = "idle" /\ ovIdx = 0 /\ resolved = [f \in Fields |-> None]
    /\ ovError = "none" /\ lgPc = "idle" /\ lgError = "none"

RenderIdle ==
    template = <<>> /\ values = [f \in Fields |-> <<>>] /\ rendered = NoRender

LanguagesIdle == languages = <<>> /\ built = NoBlocks

pipelineVars ==
    << access_token, user, mainPc, session, dirExists, files, written,
       mkdirError, tmplOverview, tmplLanguages, issued, fetched, langFetched,
       ovPc, ovIdx, resolved, ovError, lgPc, lgError >>

(***************************************************************************)
(* The pipeline: main() under asyncio.run, and the two tasks gather makes. *)
(* A task runs from one await to the next without interruption; an action  *)
(* is one such stretch.                                                    *)
(***************************************************************************)
Init ==
    /\ access_token \in Tokens
    /\ user \in Users
    /\ mainPc = "start"
    /\ session = "none"
    /\ dirExists \in BOOLEAN
    /\ files = IF dirExists THEN OldFiles ELSE NoFiles
    /\ written = {}
    /\ mkdirError = FALSE
    /\ tmplOverview \in { None, Some(OverviewTemplate) }
    /\ tmplLanguages \in { None, Some(LanguagesTemplate) }
    /\ issued = {}
    /\ fetched = [f \in Fields |-> Pending]
    /\ langFetched = Pending
    /\ ovPc = "ready" /\ ovIdx = 0
    /\ resolved = [f \in Fields |-> None]
    /\ ovError = "none"
    /\ lgPc = "ready" /\ lgError = "none"
    /\ env = PipelineEnv
    /\ flags = NoFlags
    /\ RenderIdle
    /\ LanguagesIdle

PreconditionTokenOnly(tok, usr) == Truthy(tok)

\* lines 155-161: "if not access_token" and "if user is None"
Precondition(tok, usr) == Truthy(tok) /\ usr.present

ParsedFlags(e) ==
    [parsed |-> TRUE,
     ignore_forked_repos |-> ignore_forked_repos(e),
     ignore_contrib_repos |-> ignore_contrib_repos(e)]

\* main() up to its await: it raises on a missing precondition, or parses
\* the options, opens the session and hands both coroutines to gather
MainStart ==
    /\ mainPc = "start"
    /\ IF Precondition(access_token, user)
       THEN /\ mainPc' = "gather"
            /\ flags' = ParsedFlags(env)
            /\ session' = "open"
       ELSE /\ mainPc' = "precondition_failed"
            /\ UNCHANGED << flags, session >>
    /\ UNCHANGED << access_token, user, dirExists, files, written, mkdirError,
                    tmplOverview, tmplLanguages, issued, fetched, langFetched,
                    ovPc, ovIdx, resolved, ovError, lgPc, lgError, env,
                    template, values, rendered, languages, built >>

IssueAll(i) == Fields

\* the accessors generate_overview has awaited when it reaches position i
Issue(i) == { FieldOrder[i] }

\* lines 100-102 and 141-143: the folder, then the file
WriteArtifact(which, text) ==
    LET folder == generate_output_folder(dirExists)
    IN  /\ dirExists' = folder.dir
        /\ mkdirError' = (mkdirError \/ folder.error)
        /\ IF folder.error
           THEN UNCHANGED << files, written >>
           ELSE /\ files' = [files EXCEPT ![which] = Some(text)]
                /\ written' = written \cup { which }

MkdirRaises == generate_output_folder(dirExists).error

\* generate_languages up to "await s.languages" (lines 110-116)
LgStart ==
    /\ mainPc = "gather" /\ lgPc = "ready"
    /\ IF tmplLanguages.present
       THEN /\ lgPc' = "await" /\ issued' = issued \cup { "languages" }
            /\ UNCHANGED lgError
       ELSE /\ lgPc' = "failed" /\ lgError' = "template"
            /\ UNCHANGED issued
    /\ UNCHANGED << access_token, user, mainPc, session, dirExists, files,
                    written, mkdirError, tmplOverview, tmplLanguages, fetched,
                    langFetched, ovPc, ovIdx, resolved, ovError, env, flags,
                    template, values, rendered, languages, built >>

LanguagesOrEmpty(o) == IF o.state = "error" THEN Ok(<<>>) ELSE o

\* what "await s.languages" gives generate_languages: the breakdown, or the
\* exception; no try block stands around it
Awaited(o) == o

\* s.languages settles: the exception leaves the function, or the blocks
\* are built, substituted and written (lines 115-143)
LgSettle ==
    /\ mainPc = "gather" /\ lgPc = "await"
    /\ \E o \in { Failed } \cup { Ok(b) : b \in LanguageSamples } :
        /\ langFetched' = o
        /\ IF Awaited(o).state = "error"
           THEN /\ lgPc' = "failed" /\ lgError' = "fetch"
                /\ UNCHANGED << dirExists, mkdirError, files, written >>
           ELSE LET out == RenderLanguages(tmplLanguages.text,
                                           BuildBlocks(Awaited(o).value))
                IN  IF out.error
                    THEN /\ lgPc' = "failed" /\ lgError' = "render"
                         /\ UNCHANGED << dirExists, mkdirError, files,
                                         written >>
                    ELSE /\ WriteArtifact("languages", out.text)
                         /\ lgPc' = IF MkdirRaises THEN "failed" ELSE "done"
                         /\ lgError' = IF MkdirRaises THEN "mkdir" ELSE "none"
    /\ UNCHANGED << access_token, user, mainPc, session, tmplOverview,
                    tmplLanguages, issued, fetched, ovPc, ovIdx, resolved,
                    ovError, env, flags, template, values, rendered,
                    languages, built >>

\* generate_overview up to "await s.name" (lines 37-42); gather scheduled it
\* behind generate_languages
OvStart ==
    /\ mainPc = "gather" /\ ovPc = "ready" /\ lgPc # "ready"
    /\ IF tmplOverview.present
       THEN /\ ovPc' = "await" /\ ovIdx' = 1
            /\ issued' = issued \cup Issue(1)
            /\ UNCHANGED ovError
       ELSE /\ ovPc' = "failed" /\ ovError' = "template"
            /\ UNCHANGED << ovIdx, issued >>
    /\ UNCHANGED << access_token, user, mainPc, session, dirExists, files,
                    written, mkdirError, tmplOverview, tmplLanguages, fetched,
                    langFetched, resolved, lgPc, lgError, env, flags,
                    template, values, rendered, languages, built >>

Texts(r) == [f \in Fields |-> r[f].text]

\* the awaited accessor settles: its try block assigns the value or the
\* fallback, and the function goes on to the next await (lines 41-87) or,
\* behind the last one, substitutes and writes (lines 89-102)
OvSettle ==
    /\ mainPc = "gather" /\ ovPc = "await"
    /\ LET f == FieldOrder[ovIdx] IN
       \E o \in Outcomes(f) :
        /\ fetched' = [fetched EXCEPT ![f] = o]
        /\ resolved' = [resolved EXCEPT ![f] = Some(Resolve(f, o))]
        /\ IF ovIdx < Len(FieldOrder)
           THEN /\ ovIdx' = ovIdx + 1
                /\ issued' = issued \cup Issue(ovIdx + 1)
                /\ UNCHANGED << ovPc, ovError, dirExists, mkdirError, files,
                                written >>
           ELSE /\ UNCHANGED << ovIdx, issued >>
                /\ LET out == RenderOverview(tmplOverview.text,
                                             Texts(resolved'))
                   IN  IF out.error
                       THEN /\ ovPc' = "failed" /\ ovError' = "render"
                            /\ UNCHANGED << dirExists, mkdirError, files,
                                            written >>
                       ELSE /\ WriteArtifact("overview", out.text)
                            /\ ovPc' = IF MkdirRaises THEN "failed"
                                       ELSE "done"
                            /\ ovError' = IF MkdirRaises THEN "mkdir"
                                          ELSE "none"
    /\ UNCHANGED << access_token, user, mainPc, session, tmplOverview,
                    tmplLanguages, langFetched, lgPc, lgError, env, flags,
                    template, values, rendered, languages, built >>

\* line 193: gather hands the first exception of a task to main, which
\* leaves the "async with" (the session closes) and raises; both tasks have
\* had their first stretch by then
GatherRaise ==
    /\ mainPc = "gather"
    /\ ovPc # "ready" /\ lgPc # "ready"
    /\ ovPc = "failed" \/ lgPc = "failed"
    /\ mainPc' = "raised"
    /\ session' = "closed"
    /\ UNCHANGED << access_token, user, dirExists, files, written, mkdirError,
                    tmplOverview, tmplLanguages, issued, fetched, langFetched,
                    ovPc, ovIdx, resolved, ovError, lgPc, lgError, env, flags,
                    template, values, rendered, languages, built >>

\* line 193: both tasks returned
GatherReturn ==
    /\ mainPc = "gather"
    /\ ovPc = "done" /\ lgPc = "done"
    /\ mainPc' = "returned"
    /\ session' = "closed"
    /\ UNCHANGED << access_token, user, dirExists, files, written, mkdirError,
                    tmplOverview, tmplLanguages, issued, fetched, langFetched,
                    ovPc, ovIdx, resolved, ovError, lgPc, lgError, env, flags,
                    template, values, rendered, languages, built >>

\* line 197: asyncio.run, main having raised, cancels the tasks that are
\* left; CancelledError is no Exception, so no "except Exception" of
\* generate_overview holds it, and the task ends at its await
CancelAllTasks ==
    /\ mainPc = "raised"
    /\ ovPc = "await" \/ lgPc = "await"
    /\ ovPc' = IF ovPc = "await" THEN "cancelled" ELSE ovPc
    /\ ovError' = IF ovPc = "await" THEN "cancelled" ELSE ovError
    /\ lgPc' = IF lgPc = "await" THEN "cancelled" ELSE lgPc
    /\ lgError' = IF lgPc = "await" THEN "cancelled" ELSE lgError
    /\ UNCHANGED << access_token, user, mainPc, session, dirExists, files,
                    written, mkdirError, tmplOverview, tmplLanguages, issued,
                    fetched, langFetched, ovIdx, resolved, env, flags,
                    template, values, rendered, languages, built >>

Next ==
    \/ MainStart
    \/ LgStart
    \/ LgSettle
    \/ OvStart
    \/ OvSettle
    \/ GatherRaise
    \/ GatherReturn
    \/ CancelAllTasks

Spec == Init /\ [][Next]_vars

\* asyncio.run is over: nothing of the run is left to happen
RunEnded ==
    \/ mainPc \in { "precondition_failed", "returned" }
    \/ mainPc = "raised" /\ ovPc # "await" /\ lgPc # "await"

(***************************************************************************)
(* The flag parsing of main() alone (lines 170-179), on every environment  *)
(* value made of a word with blanks around it.                             *)
(***************************************************************************)
Pads == SeqsUpTo(Whitespace, MaxPad)

FalseWord == << "f", "a", "l", "s", "e" >>

Words ==
    { <<>>, FalseWord, << "F", "A", "L", "S", "E" >>,
      << "F", "a", "l", "s", "e" >>, << "f", "A", "l", "S", "e" >>,
      << "t", "r", "u", "e" >>, << "T", "r", "u", "e" >>,
      << "f", "a", "l", "s" >>, << "f", "a", "l", "s", "e", "y" >>,
      << "f", "a", "l", " ", "s", "e" >>, << "0" >>, << "n", "o" >> }

RawValues ==
    { None } \cup { Some(l \o w \o r) : l \in Pads, w \in Words, r \in Pads }

FewValues ==
    { None, Some(<<>>), Some(FalseWord), Some(<< "t", "r", "u", "e" >>) }

FlagEnvs ==
    UNION { { [EXCLUDE_FORKED_REPOS |-> v, EXCLUDE_CONTRIBS |-> a,
               EXCLUDE_CONTRIBUTED |-> b],
              [EXCLUDE_FORKED_REPOS |-> a, EXCLUDE_CONTRIBS |-> v,
               EXCLUDE_CONTRIBUTED |-> b],
              [EXCLUDE_FORKED_REPOS |-> a, EXCLUDE_CONTRIBS |-> b,
               EXCLUDE_CONTRIBUTED |-> v] } :
            v \in RawValues, a \in FewValues, b \in FewValues }

InitFlags ==
    /\ PipelineIdle /\ RenderIdle /\ LanguagesIdle
    /\ env \in FlagEnvs
    /\ flags = NoFlags

ParseFlags ==
    /\ ~flags.parsed
    /\ flags' = ParsedFlags(env)
    /\ UNCHANGED << pipelineVars, env, template, values, rendered, languages,
                    built >>

SpecFlags == InitFlags /\ [][ParseFlags]_vars

(***************************************************************************)
(* The substitution chains alone (lines 89-98 and 138-139), on templates   *)
(* put together from placeholders and other text.                          *)
(***************************************************************************)
Pieces ==
    { Placeholder("name"), Placeholder("stars"), Placeholder("lines_changed"),
      Placeholder("progress"), Placeholder("lang_list"),
      << "{", "{", "name", "}", "}" >>, << "<text>" >>, << "}" >> }

Templates == { Flatten(ps) : ps \in SeqsUpTo(Pieces, MaxPieces) }

NameValues ==
    { << "Octo Cat" >>, << "a", "\\", "\\", "b" >>, << "a", "\\", "n" >>,
      << "\\", "d" >>, << "C", ":", "\\" >>, << "\\", "&" >>,
      Placeholder("stars") }

Keys == Fields \cup { "progress", "lang_list" }

ValueMaps ==
    { [k \in Keys |->
          CASE k = "name" -> n
            [] k = "stargazers" -> s
            [] k = "progress" -> p
            [] k = "lang_list" -> << "<li>C</li>" >>
            [] k = "lines_changed" -> << "1,234" >>
            [] OTHER -> << "7" >>] :
      n \in NameValues, s \in { << "0" >>, << "1,234,567" >> },
      p \in { << "<span></span>" >>, Placeholder("lang_list") } }

InitRender ==
    /\ PipelineIdle /\ LanguagesIdle
    /\ env = PipelineEnv /\ flags = NoFlags
    /\ template \in Templates
    /\ values \in ValueMaps
    /\ rendered = NoRender

Done(kind, out) ==
    [done |-> TRUE, kind |-> kind, error |-> out.error, text |-> out.text]

SubstituteOverview ==
    /\ ~rendered.done
    /\ rendered' = Done("overview", RenderOverview(template, values))
    /\ UNCHANGED << pipelineVars, env, flags, template, values, languages,
                    built >>

SubstituteLanguages ==
    /\ ~rendered.done
    /\ rendered' = Done("languages", RenderLanguages(template, values))
    /\ UNCHANGED << pipelineVars, env, flags, template, values, languages,
                    built >>

NextRender == SubstituteOverview \/ SubstituteLanguages

SpecRender == InitRender /\ [][NextRender]_vars

(***************************************************************************)
(* The block construction alone (lines 113-136), on every breakdown of up  *)
(* to MaxLangs languages.                                                  *)
(***************************************************************************)
LangNames == { "Python", "C", "Go", "TeX" }
Sizes == { 50, 100, 200 }
Colors == { None, Some(<< "#3572A5" >>) }

PropFor(z) == IF z = 50 THEN NoProp ELSE Prop(z * 100 + 1)

Entries ==
    { Entry(n, z, c, PropFor(z)) : n \in LangNames, z \in Sizes, c \in Colors }

\* a dict has each key once
Breakdowns ==
    { b \in SeqsUpTo(Entries, MaxLangs) :
        \A i, j \in 1..Len(b) : i # j => b[i].name # b[j].name }

InitLanguages ==
    /\ PipelineIdle /\ RenderIdle
    /\ env = PipelineEnv /\ flags = NoFlags
    /\ languages \in Breakdowns
    /\ built = NoBlocks

Build ==
    /\ ~built.done
    /\ built' = [done |-> TRUE] @@ BuildBlocks(languages)
    /\ UNCHANGED << pipelineVars, env, flags, template, values, rendered,
                    languages >>

SpecLanguages == InitLanguages /\ [][Build]_vars

(***************************************************************************)
(* The claims.                                                             *)
(***************************************************************************)
Settled(f) == fetched[f].state # "pending"

DocumentedFallback(f) ==
    IF f = "name" THEN << "Unknown" >>
    ELSE IF f = "lines_changed" THEN << "N/A" >> ELSE << "0" >>

\* the display string the claim gives a settled field
Display(f, o) ==
    IF o.state = "error" THEN DocumentedFallback(f)
    ELSE IF f = "name" THEN o.value
    ELSE IF f = "lines_changed"
         THEN IF o.value[1].isInt /\ o.value[2].isInt
              THEN << Thousands(o.value[1].n + o.value[2].n) >>
              ELSE << "N/A" >>
    ELSE IF f = "repos" THEN << Thousands(Cardinality(o.value)) >>
    ELSE << Thousands(o.value) >>

\* C1: in generate_overview every settled field holds its formatted value if
\* its fetch succeeded and its documented fallback ("Unknown", "N/A", "0")
\* if it failed, whatever the other fields did; lines changed is "N/A" as
\* soon as one sub-count is missing; and no fetch failure ends the function:
\* it ends without returning only on a template, substitution or folder
\* error, or cancelled.
FieldFallbacksIsolated ==
    /\ \A f \in Fields :
          Settled(f) =>
             /\ resolved[f].present
             /\ resolved[f].text = Display(f, fetched[f])
    /\ \A f \in Fields : ~Settled(f) => ~resolved[f].present
    /\ fetched["stargazers"].state = "ok"
          => resolved["stargazers"].text = << "1,234,567" >>
    /\ fetched["forks"].state = "ok" => resolved["forks"].text = << "0" >>
    /\ fetched["total_contributions"].state = "ok"
          => resolved["total_contributions"].text = << "1,000" >>
    /\ ovPc \in { "failed", "cancelled" }
          => ovError \in { "template", "render", "mkdir", "cancelled" }
    /\ \A i \in 1..(Len(FieldOrder) - 1) :
          fetched[FieldOrder[i]].state = "error"
             => FieldOrder[i + 1] \in issued

FieldFallbacksIsolatedWitness ==
    /\ ovPc = "done" /\ "overview" \in written
    /\ fetched["name"].state = "ok"
    /\ fetched["stargazers"].state = "error"
    /\ fetched["forks"].state = "ok"
    /\ fetched["lines_changed"].state = "ok"
    /\ ~fetched["lines_changed"].value[2].isInt
    /\ resolved["lines_changed"].text = << "N/A" >>
    /\ resolved["stargazers"].text = << "0" >>

\* C2: if one of the two badge tasks fails, the other still runs to its end
\* and writes its artifact before the run is over (unless it fails itself);
\* it is never cut off.
SiblingsIsolated ==
    RunEnded =>
       /\ lgPc = "failed"
             => ovPc = "failed" \/ (ovPc = "done" /\ "overview" \in written)
       /\ ovPc = "failed"
             => lgPc = "failed" \/ (lgPc = "done" /\ "languages" \in written)

Missing == ~access_token.present \/ ~user.present

\* C3: with ACCESS_TOKEN or GITHUB_ACTOR missing, main fails before a
\* session is opened, a fetch is issued or a task is started, and neither
\* the output folder nor an output file is created.
PreconditionFailsFirst ==
    /\ [](Missing =>
            /\ mainPc \in { "start", "precondition_failed" }
            /\ session = "none"
            /\ issued = {}
            /\ ovPc = "ready" /\ lgPc = "ready"
            /\ written = {}
            /\ ~flags.parsed)
    /\ [][Missing => dirExists' = dirExists /\ files' = files]_vars

PreconditionFailsFirstWitness ==
    /\ mainPc = "precondition_failed"
    /\ access_token.present /\ ~user.present
    /\ ~dirExists

\* C4, as the spec has it: the fetches of the nine fields are all
\* outstanding together: once generate_overview awaits one, all are issued.
FetchesFanOut == ovPc = "await" => Fields \subseteq issued

\* C4, amended: generate_overview awaits the nine accessors one at a time in
\* the order of the code: an accessor is awaited only when all before it
\* have settled (succeeded or failed), at most one is outstanding, a failed
\* one does not keep the next from being awaited, and the artifact is
\* written only when all nine have settled.
FetchesSequential ==
    /\ \A i \in 1..Len(FieldOrder) :
          FieldOrder[i] \in issued
             => \A j \in 1..(i - 1) : Settled(FieldOrder[j])
    /\ \A f \in Fields : Settled(f) => f \in issued
    /\ Cardinality({ f \in Fields \cap issued : ~Settled(f) }) <= 1
    /\ \A i \in 1..(Len(FieldOrder) - 1) :
          Settled(FieldOrder[i]) => FieldOrder[i + 1] \in issued
    /\ "overview" \in written => \A f \in Fields : Settled(f)

FetchesSequentialWitness ==
    /\ ovPc = "await" /\ ovIdx = 5
    /\ fetched["stargazers"].state = "error"
    /\ fetched["forks"].state = "ok"
    /\ "lines_changed" \in issued /\ "views" \notin issued

\* the text, blanks taken off both ends and letters lowered, is "false"
TrimmedLowerIsFalse(s) ==
    \E i \in 0..Len(s) :
        /\ i + 5 <= Len(s)
        /\ \A k \in 1..i : s[k] \in Whitespace
        /\ \A k \in (i + 6)..Len(s) : s[k] \in Whitespace
        /\ s[i + 1] \in { "f", "F" } /\ s[i + 2] \in { "a", "A" }
        /\ s[i + 3] \in { "l", "L" } /\ s[i + 4] \in { "s", "S" }
        /\ s[i + 5] \in { "e", "E" }

\* C5, as the spec has it: a flag is enabled exactly if its source value is
\* present and is not "false" once trimmed and lowercased; a present but
\* empty value enables it.
FlagEnabledUnlessFalse ==
    flags.parsed =>
       LET f == env.EXCLUDE_FORKED_REPOS
           c == IF env.EXCLUDE_CONTRIBS.present THEN env.EXCLUDE_CONTRIBS
                ELSE env.EXCLUDE_CONTRIBUTED
       IN  /\ flags.ignore_forked_repos
                = (f.present /\ ~TrimmedLowerIsFalse(f.text))
           /\ flags.ignore_contrib_repos
                = (c.present /\ ~TrimmedLowerIsFalse(c.text))

\* C5, amended: a flag is enabled exactly if its source value is present,
\* not empty, and not "false" once trimmed and lowercased; an absent or an
\* empty value disables it.  The source of the contributed-repo flag is
\* EXCLUDE_CONTRIBS if that is present and not empty, else
\* EXCLUDE_CONTRIBUTED.
FlagEnabledUnlessFalseOrEmpty ==
    flags.parsed =>
       LET f == env.EXCLUDE_FORKED_REPOS
           c == IF env.EXCLUDE_CONTRIBS.present
                   /\ Len(env.EXCLUDE_CONTRIBS.text) > 0
                THEN env.EXCLUDE_CONTRIBS ELSE env.EXCLUDE_CONTRIBUTED
       IN  /\ flags.ignore_forked_repos
                = (f.present /\ Len(f.text) > 0 /\ ~TrimmedLowerIsFalse(f.text))
           /\ flags.ignore_contrib_repos
                = (c.present /\ Len(c.text) > 0 /\ ~TrimmedLowerIsFalse(c.text))

FlagEnabledUnlessFalseOrEmptyWitness ==
    /\ flags.parsed
    /\ env.EXCLUDE_FORKED_REPOS = Some(<<>>)
    /\ ~flags.ignore_forked_repos
    /\ env.EXCLUDE_CONTRIBS = Some(<<>>)
    /\ env.EXCLUDE_CONTRIBUTED = Some(<< "t", "r", "u", "e" >>)
    /\ flags.ignore_contrib_repos

\* the mapping a chain substitutes: placeholder name -> replacement value
MappingOf(subs) ==
    [id \in { subs[i].ph : i \in 1..Len(subs) } |->
        (CHOOSE e \in { subs[i] : i \in 1..Len(subs) } : e.ph = id).repl]

\* the template with each occurrence of a mapped placeholder replaced, once,
\* by its value as it stands, and everything else kept
RECURSIVE Verbatim(_, _, _)
Verbatim(t, i, m) ==
    IF i > Len(t) THEN <<>>
    ELSE LET hit == { id \in DOMAIN m : MatchesAt(Placeholder(id), t, i) }
         IN  IF hit = {} THEN << t[i] >> \o Verbatim(t, i + 1, m)
             ELSE LET id == CHOOSE h \in hit : TRUE
                  IN  m[id] \o Verbatim(t, i + Len(Placeholder(id)), m)

\* C6: the rendered output is the template with each occurrence of each
\* mapped placeholder replaced exactly once by its value, verbatim, and
\* nothing else changed: unmapped placeholders stay, and a value that looks
\* like a placeholder or holds backslashes is not substituted or rewritten.
SubstitutedVerbatimOnce ==
    rendered.done =>
       LET m == IF rendered.kind = "overview"
                THEN MappingOf(OverviewSubs(values))
                ELSE MappingOf(LanguagesSubs(values))
       IN  /\ ~rendered.error
           /\ rendered.text = Verbatim(template, 1, m)

EveryAccessorSucceeded ==
    /\ \A f \in Fields : fetched[f].state = "ok"
    /\ fetched["lines_changed"].value[1].isInt
    /\ fetched["lines_changed"].value[2].isInt
    /\ langFetched.state = "ok"

OverviewPlaceholders ==
    { "name", "stars", "forks", "contributions", "lines_changed", "views",
      "repos", "pull_requests", "issues" }

\* C7: with credential and identity set and every accessor succeeding (the
\* name holding no backslash), the run writes both artifacts, and neither
\* holds the placeholder of a resolved value: not one of the nine overview
\* placeholders, {{ lines_changed }} among them, and neither {{ progress }}
\* nor {{ lang_list }}.
AllPlaceholdersResolved ==
    (RunEnded /\ Precondition(access_token, user) /\ tmplOverview.present
       /\ tmplLanguages.present /\ EveryAccessorSucceeded
       /\ ~BadEscapeFrom(fetched["name"].value, 1))
    => /\ written = { "overview", "languages" }
       /\ \A id \in OverviewPlaceholders :
             ~Contains(files.overview.text, Placeholder(id))
       /\ \A id \in { "progress", "lang_list" } :
             ~Contains(files.languages.text, Placeholder(id))

IsPermutation(s, t) ==
    /\ Len(s) = Len(t)
    /\ \E p \in [1..Len(s) -> 1..Len(s)] :
          /\ \A i, j \in 1..Len(s) : i # j => p[i] # p[j]
          /\ \A i \in 1..Len(s) : s[i] = t[p[i]]

\* C8: generate_languages builds both blocks over the languages in one
\* order, descending by size, one progress segment and one legend entry per
\* language; the legend entry at position i (0-based) has animation delay
\* i * 150 ms, so delays strictly increase along the order; a language
\* without a color is drawn #000000 in both blocks.
BlocksFollowSizeOrder ==
    built.done =>
       LET s == built.sorted_languages
           n == Len(languages)
           seg(i) == SubSeq(built.progress, 5 * (i - 1) + 1, 5 * i)
           ent(i) == SubSeq(built.lang_list, 9 * (i - 1) + 1, 9 * i)
           shown(e) == IF e.color.present THEN e.color.text[1] ELSE "#000000"
       IN  /\ IsPermutation(s, languages)
           /\ \A i \in 1..(n - 1) : s[i].size >= s[i + 1].size
           /\ Len(built.progress) = 5 * n
           /\ Len(built.lang_list) = 9 * n
           /\ \A i \in 1..n :
                 /\ seg(i)[2] = shown(s[i])
                 /\ ent(i)[4] = shown(s[i])
                 /\ ent(i)[6] = s[i].name
                 /\ ent(i)[2] = ToString((i - 1) * 150)

BlocksFollowSizeOrderWitness ==
    /\ built.done
    /\ Len(languages) = 3
    /\ languages[1].size = 50 /\ languages[2].size = 200
    /\ languages[3].size = 100
    /\ ~languages[2].color.present
    /\ built.sorted_languages
          = << languages[2], languages[3], languages[1] >>

\* C9: if the language fetch fails, generate_languages substitutes nothing
\* for it: it ends with that failure, which reaches main, and
\* generated/languages.svg is neither created nor overwritten.
LanguageFetchFailurePropagates ==
    langFetched.state = "error" =>
       /\ lgPc = "failed" /\ lgError = "fetch"
       /\ "languages" \notin written
       /\ files.languages \in { None, Some(OldArtifact) }
       /\ mainPc \in { "gather", "raised" }

LanguageFetchFailurePropagatesWitness ==
    /\ langFetched.state = "error"
    /\ mainPc = "raised"
    /\ files.languages = Some(OldArtifact)
    /\ "overview" \in written

\* C10: the output folder is there before either task writes its artifact,
\* and creating it never fails on a folder that is already there: between
\* the check and the creation no other task runs.
FolderCreatedOnce ==
    /\ ~mkdirError
    /\ written # {} => dirExists
    /\ ovError # "mkdir" /\ lgError # "mkdir"

FolderCreatedOnceWitness ==
    /\ written = { "languages" } /\ lgPc = "done"
    /\ ovPc = "await" /\ ~files.overview.present
    /\ dirExists
====
